---------------------------- MODULE Spec2Model ----------------------------
(***************************************************************************)
(* A model of tag-version (tagversion/git.py): the GitVersion command that *)
(* reads the version from `git describe`, bumps it (semantic or calendar   *)
(* versioning) and tags the result, together with the Version value type    *)
(* (parse / bump / render) that tests/test_version.py exercises.            *)
(*                                                                         *)
(* Python strings are sequences of one-character strings, so that split,   *)
(* int, str, join and the regular expressions are computed, not assumed.   *)
(***************************************************************************)
EXTENDS Integers, Sequences, FiniteSets, TLC

(***************************************************************************)
(* Python values                                                           *)
(***************************************************************************)
\* Python's None, where a string is expected.
None == <<"None">>

\* `not s` for a string or None
Falsy(s) == s = None \/ s = <<>>

DigitChars == <<"0", "1", "2", "3", "4", "5", "6", "7", "8", "9">>

IsDigit(c) == \E i \in 1..10 : DigitChars[i] = c

DigitVal(c) == (CHOOSE i \in 1..10 : DigitChars[i] = c) - 1

\* [A-Za-z]
Letters ==
    {"a", "b", "c", "d", "e", "f", "g", "h", "i", "j", "k", "l", "m",
     "n", "o", "p", "q", "r", "s", "t", "u", "v", "w", "x", "y", "z",
     "A", "B", "C", "D", "E", "F", "G", "H", "I", "J", "K", "L", "M",
     "N", "O", "P", "Q", "R", "S", "T", "U", "V", "W", "X", "Y", "Z"}

HasChar(s, c) == \E i \in 1..Len(s) : s[i] = c

\* s.find(c) + 1, for a c that occurs in s
IndexOf(s, c) == CHOOSE i \in 1..Len(s) : s[i] = c /\ \A j \in 1..(i - 1) : s[j] # c

AllDigits(s) == \A i \in 1..Len(s) : IsDigit(s[i])

\* s.split(sep, maxsplit); maxsplit = -1 splits at every sep
RECURSIVE split(_, _, _)
split(s, sep, maxsplit) ==
    IF maxsplit = 0 \/ ~HasChar(s, sep)
    THEN <<s>>
    ELSE LET i == IndexOf(s, sep)
         IN  <<SubSeq(s, 1, i - 1)>> \o split(SubSeq(s, i + 1, Len(s)), sep, maxsplit - 1)

\* sep.join(parts)
RECURSIVE join(_, _)
join(sep, parts) ==
    IF parts = <<>> THEN <<>>
    ELSE IF Len(parts) = 1 THEN parts[1]
    ELSE parts[1] \o sep \o join(sep, Tail(parts))

\* s.replace(old, new) for a one-character old
RECURSIVE replace(_, _, _)
replace(s, old, new) ==
    IF s = <<>> THEN <<>>
    ELSE (IF Head(s) = old THEN new ELSE <<Head(s)>>) \o replace(Tail(s), old, new)

\* int(s) returns (does not raise ValueError): the strings that reach it hold
\* no sign, blank or underscore, so it accepts exactly the digit strings
IntOk(s) == s # <<>> /\ AllDigits(s)

RECURSIVE IntVal(_)
IntVal(s) ==
    IF s = <<>> THEN 0
    ELSE 10 * IntVal(SubSeq(s, 1, Len(s) - 1)) + DigitVal(s[Len(s)])

\* str(n) for an int n >= 0
RECURSIVE StrOfNat(_)
StrOfNat(n) ==
    IF n < 10 THEN <<DigitChars[n + 1]>>
    ELSE StrOfNat(n \div 10) \o <<DigitChars[(n % 10) + 1]>>

\* '%02d' % n, '%04d' % n as strftime pads
RECURSIVE ZeroPad(_, _)
ZeroPad(s, width) == IF Len(s) >= width THEN s ELSE ZeroPad(<<"0">> \o s, width)


(***************************************************************************)
(* tagversion/git.py: module-level constants and predicates                *)
(***************************************************************************)
INITIAL_VERSION == <<"0", ".", "0", ".", "0">>

\* indices into a split version (Python lists count from 0)
MAJOR == 0

MINOR == 1

PATCH == 2

\* the exceptions a call can end with; NoExc is a normal return
NoExc == "none"

Return(v) == [exc |-> NoExc, val |-> v, msg |-> ""]

\* an exception of class e; msg names the message it was raised with
Raise(e, msg) == [exc |-> e, val |-> <<>>, msg |-> msg]

\* the messages of the VersionErrors and of print_error
MsgCalverMajor == "You can not bump to a major calver release."

MsgCalverMinor == "You can not bump to a minor calver release."

MsgAlreadyBumped == "Is version={} already bumped?"

MsgNonCalverSet == "Trying to set a non-calver version: {}"

MsgAbort == "Abort: working copy not clean."

MsgNoVersion == "No version found, use --bump to set to {}"

\* [0-9A-Za-z-]
IsIdChar(c) == IsDigit(c) \/ c \in Letters \/ c = "-"

\* 0|[1-9][0-9]*
IsNumericId(s) == IntOk(s) /\ (s[1] = "0" => Len(s) = 1)

\* one dot-separated identifier of the Prerelease group: "0", digits with no
\* leading zero, or identifier characters with at least one letter or hyphen
IsPrereleaseId(s) ==
    \/ IsNumericId(s)
    \/ /\ s # <<>>
       /\ \A i \in 1..Len(s) : IsIdChar(s[i])
       /\ \E i \in 1..Len(s) : ~IsDigit(s[i])

\* [0-9A-Za-z-]+
IsBuildId(s) == s # <<>> /\ \A i \in 1..Len(s) : IsIdChar(s[i])

IsBuild(s) ==
    LET ids == split(s, ".", -1)
    IN  \A i \in 1..Len(ids) : IsBuildId(ids[i])

IsPrerelease(s) ==
    LET ids == split(s, ".", -1)
    IN  \A i \in 1..Len(ids) : IsPrereleaseId(ids[i])

\* the first position of s holding '-' or '+', Len(s) + 1 when there is none
TagsStart(s) ==
    IF \E i \in 1..Len(s) : s[i] \in {"-", "+"}
    THEN CHOOSE i \in 1..Len(s) :
             s[i] \in {"-", "+"} /\ \A j \in 1..(i - 1) : s[j] \notin {"-", "+"}
    ELSE Len(s) + 1

\* SEMVER_RE.match(s) is not None
SemverMatch(s) ==
    LET k      == TagsStart(s)
        triple == split(SubSeq(s, 1, k - 1), ".", -1)
        tags   == SubSeq(s, k, Len(s))
        rest   == SubSeq(tags, 2, Len(tags))
    IN  /\ Len(triple) = 3
        /\ \A i \in 1..3 : IsNumericId(triple[i])
        /\ \/ tags = <<>>
           \/ tags[1] = "+" /\ IsBuild(rest)
           \/ /\ tags[1] = "-"
              /\ IF HasChar(rest, "+")
                 THEN LET p == IndexOf(rest, "+")
                      IN  /\ IsPrerelease(SubSeq(rest, 1, p - 1))
                          /\ IsBuild(SubSeq(rest, p + 1, Len(rest)))
                 ELSE IsPrerelease(rest)

\* is_semver(semver_version): re.match raises TypeError on None
is_semver(semver_version) ==
    IF semver_version = None THEN Raise("TypeError", "")
    ELSE Return(SemverMatch(semver_version))

IsLeapYear(y) == (y % 4 = 0 /\ y % 100 # 0) \/ y % 400 = 0

DaysInMonth(y, m) ==
    IF m = 2 THEN (IF IsLeapYear(y) THEN 29 ELSE 28)
    ELSE IF m \in {4, 6, 9, 11} THEN 30 ELSE 31

\* %m: 1[0-2]|0[1-9]|[1-9]
IsMonthText(s) ==
    /\ IntOk(s)
    /\ Len(s) \in {1, 2}
    /\ IntVal(s) \in 1..12
    /\ (Len(s) = 2 => s[1] \in {"0", "1"})

\* %d: 3[0-1]|[1-2]\d|0[1-9]|[1-9]
IsDayText(s) ==
    /\ IntOk(s)
    /\ Len(s) \in {1, 2}
    /\ IntVal(s) \in 1..31

\* datetime.strptime(d, '%Y%m.%d') returns (does not raise ValueError)
StrptimeOk(d) ==
    LET parts == split(d, ".", -1)
        ym    == parts[1]
        year  == SubSeq(ym, 1, 4)
        month == SubSeq(ym, 5, Len(ym))
    IN  /\ Len(parts) = 2
        /\ Len(ym) >= 5
        /\ IntOk(year)
        /\ IntVal(year) >= 1
        /\ IsMonthText(month)
        /\ IsDayText(parts[2])
        /\ IntVal(parts[2]) <= DaysInMonth(IntVal(year), IntVal(month))

\* is_calver(calver_version, calver_format) with the default '%Y%m.%d':
\* None.split raises AttributeError before the try
is_calver(calver_version) ==
    IF calver_version = None THEN Raise("AttributeError", "")
    ELSE LET two == split(calver_version, ".", 2)
             d   == join(<<".">>, SubSeq(two, 1, IF Len(two) < 2 THEN Len(two) ELSE 2))
         IN  Return(StrptimeOk(d))

\* datetime.now().strftime('%Y%m.%d')
strftime(date) ==
    ZeroPad(StrOfNat(date.y), 4) \o ZeroPad(StrOfNat(date.m), 2)
        \o <<".">> \o ZeroPad(StrOfNat(date.d), 2)

(***************************************************************************)
(* GitVersion                                                              *)
(***************************************************************************)
\* `for i in range(n): parts[i] = int(parts[i])`: the exception of the first
\* i that fails (IndexError past the end, ValueError on a non-number)
IntifyExc(parts, n) ==
    IF \E i \in 1..n : i > Len(parts) \/ ~IntOk(parts[i])
    THEN LET i == CHOOSE k \in 1..n :
                      /\ k > Len(parts) \/ ~IntOk(parts[k])
                      /\ \A j \in 1..(k - 1) : j <= Len(parts) /\ IntOk(parts[j])
         IN  IF i > Len(parts) THEN "IndexError" ELSE "ValueError"
    ELSE NoExc

\* get_next_version with the minor flag read before the major flag
get_next_version_minor_first(args, version) ==
    LET split_version == split(split(version, "-", 1)[1], ".", 3)
        exc           == IntifyExc(split_version, 3)
        major         == IntVal(split_version[MAJOR + 1])
        minor         == IntVal(split_version[MINOR + 1])
        patch         == IntVal(split_version[PATCH + 1])
    IN  IF exc # NoExc THEN Raise(exc, "")
        ELSE IF args.minor THEN Return(<<major, minor + 1, 0>>)
        ELSE IF args.major THEN Return(<<major + 1, 0, 0>>)
        ELSE IF args.patch THEN Return(<<major, minor, patch + 1>>)
        ELSE Return(<<major, minor, patch>>)

\* GitVersion.get_next_version
get_next_version(args, version) ==
    LET split_version == split(split(version, "-", 1)[1], ".", 3)
        exc           == IntifyExc(split_version, 3)
        major         == IntVal(split_version[MAJOR + 1])
        minor         == IntVal(split_version[MINOR + 1])
        patch         == IntVal(split_version[PATCH + 1])
    IN  IF exc # NoExc THEN Raise(exc, "")
        ELSE IF args.major THEN Return(<<major + 1, 0, 0>>)
        ELSE IF args.minor THEN Return(<<major, minor + 1, 0>>)
        ELSE IF args.patch THEN Return(<<major, minor, patch + 1>>)
        ELSE Return(<<major, minor, patch>>)

\* get_next_calver_version that counts on from the patch in a new period too
get_next_calver_version_no_reset(args, version, date) ==
    LET now           == strftime(date)
        calver_parts  == split(now, ".", 2)
        split_calver  == <<IntVal(calver_parts[1]), IntVal(calver_parts[2])>>
        split_version == split(split(version, "-", 1)[1], ".", 3)
        exc           == IntifyExc(split_version, 3)
        patch         == IntVal(split_version[PATCH + 1])
    IN  IF exc # NoExc THEN Raise(exc, "")
        ELSE IF args.major THEN Raise("VersionError", MsgCalverMajor)
        ELSE IF args.minor THEN Raise("VersionError", MsgCalverMinor)
        ELSE IF args.patch THEN Return(split_calver \o <<patch + 1>>)
        ELSE Return(split_calver)

\* GitVersion.get_next_calver_version
get_next_calver_version(args, version, date) ==
    LET now           == strftime(date)
        calver_parts  == split(now, ".", 2)
        split_calver  == <<IntVal(calver_parts[1]), IntVal(calver_parts[2])>>
        split_version == split(split(version, "-", 1)[1], ".", 3)
        exc           == IntifyExc(split_version, 3)
        major         == IntVal(split_version[MAJOR + 1])
        minor         == IntVal(split_version[MINOR + 1])
        patch         == IntVal(split_version[PATCH + 1])
    IN  IF exc # NoExc THEN Raise(exc, "")
        ELSE IF args.major THEN Raise("VersionError", MsgCalverMajor)
        ELSE IF args.minor THEN Raise("VersionError", MsgCalverMinor)
        ELSE IF args.patch
             THEN IF split_calver = <<major, minor>>
                  THEN Return(split_calver \o <<patch + 1>>)
                  ELSE Return(split_calver \o <<0>>)
        ELSE Return(split_calver)

\* bump that reads the text after the last dash
bump_last_piece(args, version, date) ==
    LET current_version == IF Falsy(version) THEN INITIAL_VERSION ELSE version
        split_dashes    == split(current_version, "-", -1)
    IN  IF args.calver THEN get_next_calver_version(args, current_version, date)
        ELSE IF Len(split_dashes) = 1 THEN Raise("VersionError", MsgAlreadyBumped)
        ELSE get_next_version(args, split_dashes[Len(split_dashes)])

\* GitVersion.bump; version is what the `version` property returns
bump(args, version, date) ==
    LET current_version == IF Falsy(version) THEN INITIAL_VERSION ELSE version
        split_dashes    == split(current_version, "-", -1)
    IN  IF args.calver THEN get_next_calver_version(args, current_version, date)
        ELSE IF Len(split_dashes) = 1 THEN Raise("VersionError", MsgAlreadyBumped)
        ELSE get_next_version(args, split_dashes[1])

\* GitVersion.stringify on a list of ints (a bump's result)
stringify(version) ==
    join(<<".">>, [i \in 1..Len(version) |-> StrOfNat(version[i])])

\* GitVersion.stringify on a list of strings (check_set's result): str(x) is x
stringify_set(version) == join(<<".">>, version)

\* GitVersion.check_set: None without --set, else the split of args.set,
\* VersionError when --calver is given and args.set is no calendar version.
\* The None it returns is the empty list here: split never returns one, and
\* run reads the result only through `not new_version`.
check_set(args) ==
    IF Falsy(args.set) THEN Return(<<>>)
    ELSE IF args.calver /\ ~is_calver(args.set).val THEN Raise("VersionError", MsgNonCalverSet)
    ELSE Return(split(args.set, ".", -1))

\* json.dumps(message) for a message of plain characters
json_dumps(message) == <<"\"">> \o message \o <<"\"">>

\* GitVersion.get_tag_command
get_tag_command(args, new_version) ==
    <<"g", "i", "t", " ", "t", "a", "g", " ">>
        \o (IF args.message # None
            THEN <<"-", "m", " ">> \o json_dumps(args.message) \o <<" ">>
            ELSE <<>>)
        \o new_version


\* GitVersion.check_bump: False without --bump, else bump's list. The False
\* is the empty list here: bump never returns one, and run reads
\* `new_version is False` only on this result.
check_bump(args, version, date) ==
    IF ~args.bump THEN Return(<<>>) ELSE bump(args, version, date)

(***************************************************************************)
(* tagversion.version.Version, the value type of tests/test_version.py:    *)
(* parse, render (__str__), the predicates and bump                        *)
(***************************************************************************)
\* major, minor or patch of a version with no numeric triple
Absent == -1

\* Version(major=None, minor=None, patch=None, prerelease=raw)
Unreleased(raw) ==
    [prefix |-> None, major |-> Absent, minor |-> Absent, patch |-> Absent,
     prereleasedash |-> None, prerelease |-> raw]

\* the last position of the digits that start at position i of s; i - 1
\* when there is no digit at i
RECURSIVE DigitsEnd(_, _)
DigitsEnd(s, i) ==
    IF i <= Len(s) /\ IsDigit(s[i]) THEN DigitsEnd(s, i + 1) ELSE i - 1

CharAt(s, i) == IF i \in 1..Len(s) THEN s[i] ELSE ""

\* rc<digits>
IsRcText(s) ==
    /\ Len(s) >= 3
    /\ s[1] = "r"
    /\ s[2] = "c"
    /\ AllDigits(SubSeq(s, 3, Len(s)))

\* the numeric triple at the start of s and the suffix after it: nothing,
\* rc<digits>, or a dash and the remaining text
TripleAt(s) ==
    LET a      == DigitsEnd(s, 1)
        b      == DigitsEnd(s, a + 2)
        c      == DigitsEnd(s, b + 2)
        suffix == SubSeq(s, c + 1, Len(s))
        found  == /\ a >= 1
                  /\ CharAt(s, a + 1) = "."
                  /\ b >= a + 2
                  /\ CharAt(s, b + 1) = "."
                  /\ c >= b + 2
                  /\ (suffix = <<>> \/ IsRcText(suffix) \/ suffix[1] = "-")
    IN  IF ~found THEN [ok |-> FALSE]
        ELSE [ok             |-> TRUE,
              numerals       |-> <<SubSeq(s, 1, a), SubSeq(s, a + 2, b), SubSeq(s, b + 2, c)>>,
              prereleasedash |-> IF suffix = <<>> THEN None
                                 ELSE IF IsRcText(suffix) THEN <<>> ELSE <<"-">>,
              prerelease     |-> IF suffix = <<>> THEN None
                                 ELSE IF IsRcText(suffix) THEN suffix
                                 ELSE SubSeq(suffix, 2, Len(suffix))]

\* where the numeric triple of raw may start: after a '/' or at the start
PrefixEnds(raw) ==
    {k \in 0..Len(raw) :
        /\ k = 0 \/ raw[k] = "/"
        /\ TripleAt(SubSeq(raw, k + 1, Len(raw))).ok}

SetMax(S) == CHOOSE x \in S : \A y \in S : y <= x

\* Version.parse(raw)
Version_parse(raw) ==
    IF PrefixEnds(raw) = {} THEN Unreleased(raw)
    ELSE LET k == SetMax(PrefixEnds(raw))
             t == TripleAt(SubSeq(raw, k + 1, Len(raw)))
         IN  [prefix         |-> IF k = 0 THEN None ELSE SubSeq(raw, 1, k),
              major          |-> IntVal(t.numerals[1]),
              minor          |-> IntVal(t.numerals[2]),
              patch          |-> IntVal(t.numerals[3]),
              prereleasedash |-> t.prereleasedash,
              prerelease     |-> t.prerelease]

\* an optional string as it is rendered
OrEmpty(s) == IF s = None THEN <<>> ELSE s

is_unreleased(v) == v.major = Absent /\ v.minor = Absent /\ v.patch = Absent

is_prerelease(v) == ~Falsy(v.prerelease) /\ ~is_unreleased(v)

is_rc(v) == v.prerelease # None /\ IsRcText(v.prerelease)

\* str(version) that leaves the separator out
Version_str_no_dash(v) ==
    IF is_unreleased(v) THEN OrEmpty(v.prerelease)
    ELSE OrEmpty(v.prefix)
             \o StrOfNat(v.major) \o <<".">> \o StrOfNat(v.minor) \o <<".">> \o StrOfNat(v.patch)
             \o OrEmpty(v.prerelease)

\* str(version)
Version_str(v) ==
    IF is_unreleased(v) THEN OrEmpty(v.prerelease)
    ELSE OrEmpty(v.prefix)
             \o StrOfNat(v.major) \o <<".">> \o StrOfNat(v.minor) \o <<".">> \o StrOfNat(v.patch)
             \o OrEmpty(v.prereleasedash) \o OrEmpty(v.prerelease)

BumpFlags == [major : BOOLEAN, minor : BOOLEAN, patch : BOOLEAN, prerelease : BOOLEAN]

\* the release-number rule: the highest requested of major, minor and patch,
\* and the prerelease cleared
BumpRelease(v, flags) ==
    LET stable == [v EXCEPT !.prereleasedash = None, !.prerelease = None]
    IN  IF flags.major
        THEN [stable EXCEPT !.major = @ + 1, !.minor = 0, !.patch = 0]
        ELSE IF flags.minor
        THEN [stable EXCEPT !.minor = @ + 1, !.patch = 0]
        ELSE [stable EXCEPT !.patch = @ + 1]

Rc1 == <<"r", "c", "1">>

\* rc<N> to rc<N+1>
NextRc(prerelease) ==
    <<"r", "c">> \o StrOfNat(IntVal(SubSeq(prerelease, 3, Len(prerelease))) + 1)

\* bump that starts every prerelease at rc1
Version_bump_restart(v, flags) ==
    IF is_unreleased(v) THEN Raise("VersionError", "")
    ELSE IF flags.major \/ flags.minor \/ flags.patch
    THEN IF flags.prerelease
         THEN Return([BumpRelease(v, flags) EXCEPT !.prereleasedash = <<>>, !.prerelease = Rc1])
         ELSE Return(BumpRelease(v, flags))
    ELSE IF flags.prerelease
    THEN Return([v EXCEPT !.prerelease = Rc1])
    ELSE Return([v EXCEPT !.prereleasedash = None, !.prerelease = None])

\* bump that counts an rc on across a release-number bump
Version_bump_continue(v, flags) ==
    IF is_unreleased(v) THEN Raise("VersionError", "")
    ELSE IF flags.major \/ flags.minor \/ flags.patch
    THEN IF flags.prerelease
         THEN Return([BumpRelease(v, flags) EXCEPT
                          !.prereleasedash = <<>>,
                          !.prerelease = IF is_rc(v) THEN NextRc(v.prerelease) ELSE Rc1])
         ELSE Return(BumpRelease(v, flags))
    ELSE IF flags.prerelease
    THEN IF is_rc(v)
         THEN Return([v EXCEPT !.prerelease = NextRc(v.prerelease)])
         ELSE Return([v EXCEPT !.prerelease = Rc1])
    ELSE Return([v EXCEPT !.prereleasedash = None, !.prerelease = None])

\* version.bump(bump_major, bump_minor, bump_patch, bump_prerelease)
Version_bump(v, flags) ==
    IF is_unreleased(v) THEN Raise("VersionError", "")
    ELSE IF flags.major \/ flags.minor \/ flags.patch
    THEN IF flags.prerelease
         THEN Return([BumpRelease(v, flags) EXCEPT !.prereleasedash = <<>>, !.prerelease = Rc1])
         ELSE Return(BumpRelease(v, flags))
    ELSE IF flags.prerelease
    THEN IF is_rc(v)
         THEN Return([v EXCEPT !.prerelease = NextRc(v.prerelease)])
         ELSE Return([v EXCEPT !.prerelease = Rc1])
    ELSE Return([v EXCEPT !.prereleasedash = None, !.prerelease = None])

(***************************************************************************)
(* The repository and the clock, as the command sees them                  *)
(***************************************************************************)
\* commits the model adds after the nearest tag
MaxDist == 1

\* days the model lets pass
MaxTicks == 1

StartDate == [y |-> 2023, m |-> 9, d |-> 29]

NextDay(date) ==
    IF date.d < DaysInMonth(date.y, date.m) THEN [date EXCEPT !.d = @ + 1]
    ELSE IF date.m < 12 THEN [date EXCEPT !.m = @ + 1, !.d = 1]
    ELSE [y |-> date.y + 1, m |-> 1, d |-> 1]

\* tags found in a repository: by hand or by earlier runs
InitTags ==
    {<<"0", ".", "0", ".", "1">>,
     <<"9", ".", "9", ".", "9">>,
     <<"T", "/", "0", ".", "0", ".", "1">>,
     <<"0", ".", "0", ".", "1", "r", "c", "1">>,
     <<"1", ".", "2">>,
     <<"2", "0", "2", "3", "0", "9", ".", "2", "9", ".", "0">>}

\* abbreviated commit hashes
Hashes == {<<"6", "6", "c">>, <<"1", "2", "3">>}

\* what `git rev-parse --abbrev-ref HEAD` (or GIT_BRANCH) names
BranchName == <<"f", "/", "x">>

SetValues ==
    {None,
     <<"1", ".", "2", ".", "3">>,
     <<"2", "0", "2", "3", "0", "9", ".", "2", "9", ".", "5">>}

Messages == {None, <<"m">>}

Args ==
    [bump : BOOLEAN, patch : BOOLEAN, minor : BOOLEAN, major : BOOLEAN,
     set : SetValues, semver : BOOLEAN, calver : BOOLEAN,
     message : Messages, branch : BOOLEAN]

VARIABLES
    head,   \* the abbreviated hash of HEAD, None in a repository with no commit
    tag,    \* the nearest tag reachable from HEAD, None when there is none
    dist,   \* the commits from that tag to HEAD
    clean,  \* `git status --untracked --short` prints nothing
    today,  \* datetime.now()
    ticks,  \* days passed
    last,   \* what the run of the command did
    prev    \* what the user read from the run before it

gitVars == <<head, tag, dist, clean, today, ticks, last, prev>>

VARIABLES
    text,     \* the raw string handed to Version.parse
    parts,    \* what the raw string was put together from
    ver,      \* the Version object
    was,      \* the Version object before the last bump
    how,      \* the flags of the last bump
    raised,   \* the exception the last bump ended with
    bumps,    \* bumps so far
    rc_only   \* every bump so far asked for the prerelease alone

verVars == <<text, parts, ver, was, how, raised, bumps, rc_only>>

vars == <<gitVars, verVars>>

\* GitVersion.branch
branch == replace(BranchName, "/", <<"-", "-">>)

\* `git describe --tags --always`; None stands for exit status 128
describe(hd, tg, ds) ==
    IF hd = None THEN None
    ELSE IF tg = None THEN hd
    ELSE IF ds = 0 THEN tg
    ELSE tg \o <<"-">> \o StrOfNat(ds) \o <<"-", "g">> \o hd

\* `git describe --tags --exact-match` succeeds
exact_match(hd, tg, ds) == hd # None /\ tg # None /\ ds = 0

\* GitVersion.version
version(args, hd, tg, ds) ==
    LET described == describe(hd, tg, ds)
    IN  IF described = None THEN None
        ELSE IF args.branch /\ ~exact_match(hd, tg, ds)
        THEN described \o <<"-">> \o branch
        ELSE described

\* the tag name in a `git tag` command: its last word
RECURSIVE TagName(_)
TagName(command) ==
    IF HasChar(command, " ")
    THEN TagName(SubSeq(command, IndexOf(command, " ") + 1, Len(command)))
    ELSE command

\* no run yet
NoRun ==
    [ran |-> FALSE, args |-> <<>>, version |-> None, exc |-> NoExc, status |-> 0,
     stderr |-> "", announced |-> None, stdout |-> None, tag_command |-> None]

\* no earlier run
NoPrev ==
    [ran |-> FALSE, major |-> FALSE, minor |-> FALSE, patch |-> FALSE,
     status |-> 0, stderr |-> "", announced |-> None]

\* what stays of a run once its process is gone: the bump flags the user
\* gave, the exit status and what print_error wrote
Remembered(out) ==
    [ran |-> TRUE, major |-> out.args.major, minor |-> out.args.minor,
     patch |-> out.args.patch, status |-> out.status, stderr |-> out.stderr,
     announced |-> out.announced]

\* a run that ends before any tag command
Ended(args, current_version, exc, status, stderr, announced, stdout) ==
    [out |-> [ran |-> TRUE, args |-> args, version |-> current_version, exc |-> exc,
              status |-> status, stderr |-> stderr, announced |-> announced,
              stdout |-> stdout, tag_command |-> None],
     tag |-> tag, dist |-> dist]

\* the tail of run: the --semver and --calver checks on the version as it is
\* read again, then `return status`; status -1 stands for no return value
Checks(args, out, tg, ds, status) ==
    LET after  == version(args, head, tg, ds)
        semver == is_semver(after)
        calver == is_calver(after)
        done(exc, st) == [out |-> [out EXCEPT !.exc = exc, !.status = st],
                          tag |-> tg, dist |-> ds]
    IN  IF args.semver /\ semver.exc # NoExc THEN done(semver.exc, -1)
        ELSE IF args.semver /\ ~semver.val THEN done(NoExc, 1)
        ELSE IF args.calver /\ calver.exc # NoExc THEN done(calver.exc, -1)
        ELSE IF args.calver /\ ~calver.val THEN done(NoExc, 1)
        ELSE done(NoExc, status)

\* GitVersion.run. tag_ok: `git tag` creates the tag and `git describe` then
\* names it (it does not in a repository with no commit, for a name that is
\* taken, or when HEAD carries another tag that describe prefers).
run(args, tag_ok) ==
    LET current_version == version(args, head, tag, dist)
        set_version     == check_set(args)
        bumped          == check_bump(args, current_version, today)
        new_version     == IF set_version.val # <<>> THEN set_version ELSE bumped
        version_str     == IF set_version.val # <<>>
                           THEN stringify_set(set_version.val)
                           ELSE stringify(bumped.val)
        tag_command     == get_tag_command(args, version_str)
        created         == head # None /\ tag_ok
        base            == Ended(args, current_version, NoExc, 0, "", None, None).out
    IN  IF ~clean
        THEN Ended(args, None, NoExc, 1, MsgAbort, None, None)
        ELSE IF set_version.exc # NoExc
        THEN Ended(args, current_version, set_version.exc, -1, "", None, None)
        ELSE IF new_version.exc = "VersionError"
        THEN Ended(args, current_version, NoExc, 1, new_version.msg, None, None)
        ELSE IF new_version.exc # NoExc
        THEN Ended(args, current_version, new_version.exc, -1, "", None, None)
        ELSE IF new_version.val = <<>>
        THEN IF ~Falsy(current_version)
             THEN Checks(args, [base EXCEPT !.stdout = current_version], tag, dist, 0)
             ELSE Checks(args,
                         [base EXCEPT !.stderr = MsgNoVersion,
                                      !.announced =
                                          stringify(get_next_version(args, INITIAL_VERSION).val)],
                         tag, dist, 1)
        ELSE Checks(args,
                    [base EXCEPT !.tag_command = tag_command, !.stdout = version_str],
                    IF created THEN TagName(tag_command) ELSE tag,
                    IF created THEN 0 ELSE dist,
                    0)

NoFlags == [major |-> FALSE, minor |-> FALSE, patch |-> FALSE, prerelease |-> FALSE]

NoParts == [kind |-> "none", prefix |-> <<>>, numerals |-> <<>>, suffix |-> <<>>]

\* no Version object is in play
VersionIdle ==
    /\ text = <<>>
    /\ parts = NoParts
    /\ ver = Unreleased(<<>>)
    /\ was = Unreleased(<<>>)
    /\ how = NoFlags
    /\ raised = NoExc
    /\ bumps = 0
    /\ rc_only = TRUE

Init ==
    /\ VersionIdle
    /\ head \in {None} \cup Hashes
    /\ tag \in IF head = None THEN {None} ELSE {None} \cup InitTags
    /\ dist \in IF tag = None THEN {0} ELSE 0..MaxDist
    /\ clean = TRUE
    /\ today = StartDate
    /\ ticks = 0
    /\ last = NoRun
    /\ prev = NoPrev

\* the command runs: one process, from its start to its exit
Run(args, tag_ok) ==
    /\ ~last.ran
    /\ LET r == run(args, tag_ok)
       IN  /\ last' = r.out
           /\ tag' = r.tag
           /\ dist' = r.dist
    /\ UNCHANGED <<head, clean, today, ticks, prev>>
    /\ UNCHANGED verVars

\* the process is gone and the user is back at the prompt, knowing what
\* the run printed
Again ==
    /\ last.ran
    /\ prev' = Remembered(last)
    /\ last' = NoRun
    /\ UNCHANGED <<head, tag, dist, clean, today, ticks>>
    /\ UNCHANGED verVars

\* the user commits the working copy (the user works between runs)
Commit(h) ==
    /\ ~last.ran
    /\ dist < MaxDist
    /\ head' = h
    /\ dist' = IF tag = None THEN 0 ELSE dist + 1
    /\ clean' = TRUE
    /\ UNCHANGED <<tag, today, ticks, last, prev>>
    /\ UNCHANGED verVars

\* the user changes a file
Edit ==
    /\ ~last.ran
    /\ clean
    /\ clean' = FALSE
    /\ UNCHANGED <<head, tag, dist, today, ticks, last, prev>>
    /\ UNCHANGED verVars

\* midnight
Tick ==
    /\ ~last.ran
    /\ ticks < MaxTicks
    /\ today' = NextDay(today)
    /\ ticks' = ticks + 1
    /\ UNCHANGED <<head, tag, dist, clean, last, prev>>
    /\ UNCHANGED verVars

Next ==
    \/ \E args \in Args, tag_ok \in BOOLEAN : Run(args, tag_ok)
    \/ \E h \in Hashes : Commit(h)
    \/ Edit
    \/ Tick

\* one run of the command in a repository that the user works in
Spec == Init /\ [][Next]_vars

\* a repository with no commit, where `git describe` gives no version
InitNoVersion == Init /\ head = None

NextAgain ==
    \/ \E args \in Args, tag_ok \in BOOLEAN : Run(args, tag_ok)
    \/ Again
    \/ Edit

\* run after run of the command in a repository with no version
SpecAgain == InitNoVersion /\ [][NextAgain]_vars


(***************************************************************************)
(* A Version object: parsed from a raw string, then bumped in place        *)
(***************************************************************************)
\* bumps of one Version object
MaxBumps == 2

Prefixes == {<<>>, <<"T", "/">>}

Majors == {<<"0">>, <<"9">>, <<"0", "1">>}

Minors == {<<"0">>, <<"1">>}

Patches == {<<"1">>, <<"2", "7">>, <<"0", "0">>}

\* nothing, rc<digits>, or a dash and text
Suffixes ==
    {<<>>,
     <<"r", "c", "1">>,
     <<"r", "c", "0", "9">>,
     <<"-">>,
     <<"-", "r", "c", "1">>,
     <<"-", "1", "6", "-", "g", "5", "b", "-", "f", "-", "-", "x">>}

\* raw strings with no numeric triple
OpaqueTexts ==
    {<<"6", "6", "c", "-", "H", "E", "A", "D">>,
     <<"6", "6", "c">>,
     <<"1", ".", "2">>,
     <<"1", ".", "2", "-", "x">>,
     <<"1", ".", "x", ".", "3">>,
     <<"T", "/", "1", ".", "2">>,
     <<>>}

\* raw strings with a numeric triple that the grammar's suffixes do not follow
OtherTexts ==
    {<<"0", ".", "0", ".", "1", "r", "c">>,
     <<"0", ".", "0", ".", "1", "a">>,
     <<"1", ".", "2", ".", "3", ".", "4">>,
     <<"0", ".", "0", ".", "1", "/">>,
     <<"a", "0", ".", "0", ".", "1">>}

Composed(p) ==
    p.prefix \o p.numerals[1] \o <<".">> \o p.numerals[2] \o <<".">> \o p.numerals[3]
        \o p.suffix

TripleParts ==
    {[kind |-> "triple", prefix |-> pf, numerals |-> <<a, b, c>>, suffix |-> sf] :
        pf \in Prefixes, a \in Majors, b \in Minors, c \in Patches, sf \in Suffixes}

\* version = Version.parse(text)
VersionInit ==
    /\ head = None
    /\ tag = None
    /\ dist = 0
    /\ clean = TRUE
    /\ today = StartDate
    /\ ticks = 0
    /\ last = NoRun
    /\ prev = NoPrev
    /\ \/ \E p \in TripleParts : parts = p /\ text = Composed(p)
       \/ \E t \in OpaqueTexts : parts = [NoParts EXCEPT !.kind = "opaque"] /\ text = t
       \/ \E t \in OtherTexts : parts = [NoParts EXCEPT !.kind = "other"] /\ text = t
    /\ ver = Version_parse(text)
    /\ was = ver
    /\ how = NoFlags
    /\ raised = NoExc
    /\ bumps = 0
    /\ rc_only = TRUE

\* version.bump(...): the object changes in place unless bump raises
Bump(flags) ==
    /\ bumps < MaxBumps
    /\ LET r == Version_bump(ver, flags)
       IN  /\ ver' = IF r.exc = NoExc THEN r.val ELSE ver
           /\ raised' = r.exc
    /\ was' = ver
    /\ how' = flags
    /\ bumps' = bumps + 1
    /\ rc_only' = (rc_only /\ flags = [NoFlags EXCEPT !.prerelease = TRUE])
    /\ UNCHANGED <<text, parts>>
    /\ UNCHANGED gitVars

NextVersion == \E flags \in BumpFlags : Bump(flags)

\* a Version object from its parse on
SpecVersion == VersionInit /\ [][NextVersion]_vars


(***************************************************************************)
(* The claims                                                              *)
(***************************************************************************)
\* the run got past the working-copy check
Handled(out) == out.ran /\ out.stderr # MsgAbort

\* the run got to check_bump with --bump given
BumpRun(out) == Handled(out) /\ Falsy(out.args.set) /\ out.args.bump

\* the version string that bump works on
Current(out) == IF Falsy(out.version) THEN INITIAL_VERSION ELSE out.version

\* s is M.m.p, alone or followed by a dash and text
HasLeadingTriple(s) ==
    /\ s # None
    /\ TripleAt(s).ok
    /\ TripleAt(s).prereleasedash # <<>>

\* the numbers of that triple
LeadingTriple(s) ==
    [i \in 1..3 |-> IntVal(TripleAt(s).numerals[i])]

Dotted(triple) ==
    StrOfNat(triple[1]) \o <<".">> \o StrOfNat(triple[2]) \o <<".">> \o StrOfNat(triple[3])

\* the bump of (M, m, p) by the first of major, minor, patch that is asked for
OneDimension(args, t) ==
    IF args.major THEN <<t[1] + 1, 0, 0>>
    ELSE IF args.minor THEN <<t[1], t[2] + 1, 0>>
    ELSE <<t[1], t[2], t[3] + 1>>

AnyRelease(args) == args.major \/ args.minor \/ args.patch

DateParts(date) == <<date.y * 100 + date.m, date.d>>

\* a calendar-version bump with the patch flag alone
CalverPatchRun(out) ==
    /\ BumpRun(out)
    /\ out.args.calver
    /\ out.args.patch
    /\ ~out.args.major
    /\ ~out.args.minor

\* C7: a calendar-version patch bump on a version with the leading triple
\* (a, b, p), on the date (d1, d2), gives d1.d2.(p+1) when (d1, d2) = (a, b)
\* and d1.d2.0 otherwise.
C7_CalverPatch ==
    (CalverPatchRun(last) /\ HasLeadingTriple(last.version))
    => LET t == LeadingTriple(last.version)
           d == DateParts(today)
       IN  /\ last.tag_command # None
           /\ last.stdout =
                  Dotted(d \o <<IF d = <<t[1], t[2]>> THEN t[3] + 1 ELSE 0>>)
           /\ TagName(last.tag_command) = last.stdout

\* C7's case: a patch bump in the calendar period of the current version
C7_Witness ==
    /\ CalverPatchRun(last)
    /\ HasLeadingTriple(last.version)
    /\ DateParts(today) = SubSeq(LeadingTriple(last.version), 1, 2)
    /\ last.stdout = Dotted(DateParts(today) \o <<LeadingTriple(last.version)[3] + 1>>)

SetMin(S) == CHOOSE x \in S : \A y \in S : x <= y

\* the text of s before its first dash
BeforeDash(s) == SubSeq(s, 1, SetMin({i \in 1..Len(s) : s[i] = "-"}) - 1)

\* C9: without --calver, bump raises the 'already bumped' VersionError
\* exactly when the current version string holds no dash; when it holds
\* one, the next version (or the failure) is that of the text before the
\* first dash alone; with --calver the guard is never applied.
C9_AlreadyBumpedGuard ==
    BumpRun(last)
    => /\ last.stderr = MsgAlreadyBumped
          <=> (~last.args.calver /\ ~HasChar(Current(last), "-"))
       /\ (~last.args.calver /\ HasChar(Current(last), "-"))
          => LET r == get_next_version(last.args, BeforeDash(Current(last)))
             IN  /\ last.exc = r.exc
                 /\ r.exc = NoExc => last.stdout = stringify(r.val)

\* C9's case: a version with two dashes is bumped from the text before the
\* first
C9_Witness ==
    /\ BumpRun(last)
    /\ ~last.args.calver
    /\ Len(split(Current(last), "-", -1)) > 2
    /\ last.tag_command # None

\* check_bump raised a VersionError: run caught it, wrote its message and
\* returned 1 before any tag command
VersionErrorReported(out) ==
    /\ out.exc = NoExc
    /\ out.status = 1
    /\ out.stderr \in {MsgAlreadyBumped, MsgCalverMajor, MsgCalverMinor, MsgNonCalverSet}
    /\ out.tag_command = None

\* C5: a bump asked for on an unreleased version (a current version string
\* with no numeric triple) fails with a VersionError, whatever the flags:
\* no next version, no other kind of error.
C5_UnreleasedBumpIsVersionError ==
    ( /\ BumpRun(last)
      /\ ~Falsy(last.version)
      /\ is_unreleased(Version_parse(last.version)) )
    => VersionErrorReported(last)

\* C6: with --calver, a bump with the major or the minor flag is rejected
\* with a VersionError for every current version string and date, and no
\* next version is returned.
C6_CalverMajorMinorRejected ==
    (BumpRun(last) /\ last.args.calver /\ (last.args.major \/ last.args.minor))
    => /\ VersionErrorReported(last)
       /\ last.stderr \in {MsgCalverMajor, MsgCalverMinor}

\* C8: every VersionError raised while run handles a request (a calver
\* major/minor bump, the 'already bumped' guard, a --set value that is no
\* calendar version under --calver) is caught by run, written to stderr and
\* turned into status 1, and no tag command is executed.
C8_VersionErrorsCaught ==
    /\ last.ran => last.exc # "VersionError"
    /\ ( /\ Handled(last)
         /\ last.args.calver
         /\ ~Falsy(last.args.set)
         /\ ~is_calver(last.args.set).val )
       => /\ VersionErrorReported(last)
          /\ last.stderr = MsgNonCalverSet

SameFlags(a, b) == a.major = b.major /\ a.minor = b.minor /\ a.patch = b.patch

\* C10: with no version in the repository, a run without --bump announces
\* 'No version found, use --bump to set to X', X the next version from
\* 0.0.0, and returns 1; the following run with --bump (no --calver, the
\* same bump flags, a clean working copy, still no version) creates the
\* tag X and returns 0.
C10_AnnouncedThenTagged ==
    /\ ( /\ Handled(last)
         /\ last.version = None
         /\ Falsy(last.args.set)
         /\ ~last.args.bump )
       => /\ last.exc = NoExc
          /\ last.status = 1
          /\ last.stderr = MsgNoVersion
          /\ last.announced = stringify(get_next_version(last.args, INITIAL_VERSION).val)
    /\ ( /\ prev.ran
         /\ prev.stderr = MsgNoVersion
         /\ BumpRun(last)
         /\ last.version = None
         /\ ~last.args.calver
         /\ SameFlags(prev, last.args) )
       => /\ last.exc = NoExc
          /\ last.status = 0
          /\ TagName(last.tag_command) = prev.announced

\* the numbers of a raw string put together from a triple
Numbers(p) == [i \in 1..3 |-> IntVal(p.numerals[i])]

\* a bump that asked for the prerelease alone and did not raise
PrereleaseAlone ==
    /\ bumps >= 1
    /\ raised = NoExc
    /\ how = [NoFlags EXCEPT !.prerelease = TRUE]

\* C2: a bump of the prerelease alone leaves the numeric triple and the
\* prefix as they are; it sets the prerelease to rc1 on a version with no rc
\* suffix and to rc(N+1) on one with rcN; so k such bumps of a stable M.m.p
\* render as M.m.prc1, ..., M.m.prck.
C2_PrereleaseAlone ==
    /\ PrereleaseAlone
       => /\ <<ver.major, ver.minor, ver.patch>> = <<was.major, was.minor, was.patch>>
          /\ ver.prefix = was.prefix
          /\ ~is_rc(was) => ver.prerelease = <<"r", "c", "1">>
          /\ is_rc(was)
             => ver.prerelease =
                    <<"r", "c">>
                        \o StrOfNat(IntVal(SubSeq(was.prerelease, 3, Len(was.prerelease))) + 1)
    /\ (parts.kind = "triple" /\ parts.suffix = <<>> /\ rc_only /\ bumps >= 1)
       => Version_str(ver) =
              parts.prefix \o Dotted(Numbers(parts)) \o <<"r", "c">> \o StrOfNat(bumps)

\* C2's case: the second prerelease bump of a stable version renders rc2
C2_Witness ==
    /\ PrereleaseAlone
    /\ parts.kind = "triple"
    /\ parts.suffix = <<>>
    /\ rc_only
    /\ bumps = 2
    /\ ver.prerelease = <<"r", "c", "2">>

\* a bump that asked for the prerelease and a release number and did not raise
PrereleaseWithRelease ==
    /\ bumps >= 1
    /\ raised = NoExc
    /\ how.prerelease
    /\ AnyRelease(how)

\* C3: a prerelease bump asked for together with a major, minor or patch
\* bump gives the bumped triple followed by rc1 with an empty separator,
\* whatever the prerelease text was: an rc counter is never continued.
C3_PrereleaseWithRelease ==
    PrereleaseWithRelease
    => /\ <<ver.major, ver.minor, ver.patch>>
              = OneDimension(how, <<was.major, was.minor, was.patch>>)
       /\ ver.prereleasedash = <<>>
       /\ ver.prerelease = <<"r", "c", "1">>
       /\ Version_str(ver) =
              OrEmpty(was.prefix) \o Dotted(<<ver.major, ver.minor, ver.patch>>)
                  \o <<"r", "c", "1">>

\* C3's case: the version had an rc counter past 1 when it was bumped
C3_Witness ==
    /\ PrereleaseWithRelease
    /\ is_rc(was)
    /\ was.prerelease # <<"r", "c", "1">>
    /\ ver.prerelease = <<"r", "c", "1">>

\* the three numbers are written as str() writes them: no leading zero
PlainNumerals(p) == \A i \in 1..3 : p.numerals[i] = StrOfNat(IntVal(p.numerals[i]))

\* a raw string with no numeric triple parses to an unreleased Version that
\* holds it as the prerelease and renders it
OpaqueRoundTrip ==
    (bumps = 0 /\ parts.kind = "opaque")
    => /\ is_unreleased(ver)
       /\ ver.prefix = None
       /\ ver.prerelease = text
       /\ Version_str(ver) = text

=============================================================================
